---------------------------- MODULE Spec2Model ----------------------------
(***************************************************************************)
(* A model of MEDS_Tabular_AutoML: the flat-feature column utilities of    *)
(* src/src/MEDS_tabular_automl/utils.py and the XGBoost shard iterator of  *)
(* src/xgboost_sweep.py.                                                   *)
(*                                                                         *)
(* A Python str is a sequence of one-character strings, so that split,     *)
(* join, endswith and the code-point order used by sorted() are computed   *)
(* and not assumed.  A polars frame is its schema (the list of column      *)
(* names) and, where cell values matter, its rows.                         *)
(***************************************************************************)
EXTENDS Integers, Sequences, FiniteSets, TLC

(***************************************************************************)
(* Python str                                                              *)
(***************************************************************************)

\* The characters used, in code-point order: '-' 45, '/' 47, digits,
\* upper case, '_' 95, lower case.
Alphabet ==
    << "-", "/", "0", "1", "3", "7", "A", "B", "C", "_",
       "a", "b", "c", "d", "e", "f", "g", "h", "i", "k", "l", "m", "n",
       "o", "p", "q", "r", "s", "t", "u", "v", "x" >>

Ord(c) == CHOOSE i \in 1..Len(Alphabet) : Alphabet[i] = c

\* a < b for two str, as Python compares them (by code point, a proper
\* prefix first)
StrLess(a, b) ==
    \E k \in 1..Len(b) :
        /\ k <= Len(a) + 1
        /\ \A j \in 1..(k - 1) : a[j] = b[j]
        /\ (k = Len(a) + 1 \/ Ord(a[k]) < Ord(b[k]))

StrLeq(a, b) == a = b \/ StrLess(a, b)

\* s.endswith(suffix)
EndsWith(s, suffix) ==
    /\ Len(suffix) <= Len(s)
    /\ SubSeq(s, Len(s) - Len(suffix) + 1, Len(s)) = suffix

\* c in s, for a character c
HasChar(s, c) == \E i \in 1..Len(s) : s[i] = c

\* s.split("/"): the segments between the slashes, empty ones included
RECURSIVE Split(_)
Split(s) ==
    IF ~HasChar(s, "/") THEN << s >>
    ELSE LET i == CHOOSE k \in 1..Len(s) :
                      s[k] = "/" /\ \A j \in 1..(k - 1) : s[j] # "/"
         IN  << SubSeq(s, 1, i - 1) >> \o Split(SubSeq(s, i + 1, Len(s)))

\* "/".join(parts)
RECURSIVE Join(_)
Join(parts) ==
    IF Len(parts) = 0 THEN << >>
    ELSE IF Len(parts) = 1 THEN parts[1]
    ELSE parts[1] \o << "/" >> \o Join(Tail(parts))

Range(s) == { s[i] : i \in 1..Len(s) }

NoDuplicates(s) == \A i, j \in 1..Len(s) : s[i] = s[j] => i = j

\* An optional value: None, or Some(x)
None == << >>
Some(x) == << x >>

(***************************************************************************)
(* The names the code spells out                                           *)
(***************************************************************************)

s_static     == << "s", "t", "a", "t", "i", "c" >>
s_present    == << "p", "r", "e", "s", "e", "n", "t" >>
s_first      == << "f", "i", "r", "s", "t" >>
s_sum        == << "s", "u", "m" >>
s_sum_sqd    == << "s", "u", "m", "_", "s", "q", "d" >>
s_min        == << "m", "i", "n" >>
s_max        == << "m", "a", "x" >>
s_value      == << "v", "a", "l", "u", "e" >>
s_count      == << "c", "o", "u", "n", "t" >>
s_has_values_count ==
    << "h", "a", "s", "_", "v", "a", "l", "u", "e", "s", "_" >> \o s_count
s_patient_id == << "p", "a", "t", "i", "e", "n", "t", "_", "i", "d" >>
s_subject_id == << "s", "u", "b", "j", "e", "c", "t", "_", "i", "d" >>
s_timestamp  == << "t", "i", "m", "e", "s", "t", "a", "m", "p" >>
s_label      == << "l", "a", "b", "e", "l" >>
s_task       == << "t", "a", "s", "k" >>
s_right      == << "_", "r", "i", "g", "h", "t" >>

(***************************************************************************)
(* The iterator of xgboost_sweep.py and the files it reads                 *)
(***************************************************************************)

VARIABLES
    cfg,                \* the configuration: window_sizes, codes, aggs,
                        \* min_code_inclusion_frequency, keep_static
    fs,                 \* the files under tabularized_data_dir
    data_shards,        \* Iterator._data_shards
    static_shards,      \* Iterator._static_shards, None when not kept
    codes_set,          \* Iterator.codes_set
    aggs_set,           \* Iterator.aggs_set
    min_frequency_set,  \* Iterator.min_frequency_set
    it,                 \* Iterator._it
    sink,               \* the input_data calls made so far, oldest first
    collected,          \* what the last collect_in_memory returned
    last,               \* the last call: its operation, the index it was
                        \* made at and what it returned
    selected_columns,   \* selected_columns of the last column selection
    shard_out           \* what the last _load_shard on its own returned

iterVars ==
    << cfg, fs, data_shards, static_shards, codes_set, aggs_set,
       min_frequency_set, it, sink, collected, last >>

shardVars == << selected_columns, shard_out >>

\* the most shards a split holds
MaxShards == 2

\* the most input_data calls followed
MaxSink == 4

\* the stems of the parquet files a split directory may hold
ShardStems == { << "0" >>, << "1" >>, << "3" >> }

\* a frame: its schema, or the error reading or building it raises
Frame(cols) == [err |-> FALSE, cols |-> cols]
FrameError == [err |-> TRUE, cols |-> << >>]

\* pl.scan_parquet(path), read: `file` is Some(columns) where the path
\* holds a table and None where it holds nothing
ScanParquet(file) == IF file = None THEN FrameError ELSE Frame(file[1])

\* df.select(names): every name is a column, no name twice
Select(df, names) ==
    IF df.err \/ ~NoDuplicates(names) \/ ~(Range(names) \subseteq Range(df.cols))
    THEN FrameError
    ELSE Frame(names)

\* task_df.rename({col: f"{col}/task" for col in task_df.schema.names})
RenameTask(df) ==
    IF df.err THEN FrameError
    ELSE Frame([i \in 1..Len(df.cols) |-> df.cols[i] \o << "/" >> \o s_task])

\* left.join_asof(right, by=by, on=on): both frames hold both keys; the
\* result holds left's columns, then right's other columns, renamed with
\* the suffix _right where left has the name
JoinAsof(left, right, by, on) ==
    IF \/ left.err \/ right.err
       \/ ~({by, on} \subseteq Range(left.cols))
       \/ ~({by, on} \subseteq Range(right.cols))
    THEN FrameError
    ELSE LET NotKey(c) == c \notin {by, on}
             rest == SelectSeq(right.cols, NotKey)
         IN  Frame(left.cols \o
                   [i \in 1..Len(rest) |->
                       IF rest[i] \in Range(left.cols)
                       THEN rest[i] \o s_right ELSE rest[i]])

\* pl.concat([a, b], how="align"): an outer join on the common columns,
\* of which there must be one
ConcatAlign(a, b) ==
    IF a.err \/ b.err \/ Range(a.cols) \cap Range(b.cols) = {}
    THEN FrameError
    ELSE LET New(c) == c \notin Range(a.cols)
         IN  Frame(a.cols \o SelectSeq(b.cols, New))

\* Iterator._get_inclusion_sets: the codes and aggregations the
\* configuration lists, and the codes of code_frequencies.parquet whose
\* frequency reaches the configured minimum
get_codes_set(c) == IF c.codes = None THEN None ELSE Some(Range(c.codes[1]))

get_aggs_set(c) == IF c.aggs = None THEN None ELSE Some(Range(c.aggs[1]))

get_min_frequency_set(c, files) ==
    IF c.min_code_inclusion_frequency = None THEN None
    ELSE Some({ files.code_frequencies[i].code :
                  i \in { j \in 1..Len(files.code_frequencies) :
                            files.code_frequencies[j].frequency
                                >= c.min_code_inclusion_frequency[1] } })

\* Iterator._get_static_shards: one lazy scan, which reads nothing yet,
\* per shard of the split
get_static_shards(shards) == [stem \in Range(shards) |-> [path |-> stem]]

\* The column test of Iterator._load_shard: at least four segments, the
\* code is parts[1:-2] and the aggregation parts[-2:]
ColumnSelected(col) ==
    LET parts == Split(col)
        n == Len(parts)
    IN  /\ n > 3
        /\ (codes_set = None \/ Join(SubSeq(parts, 2, n - 2)) \in codes_set[1])
        /\ (min_frequency_set = None
               \/ Join(SubSeq(parts, 2, n - 2)) \in min_frequency_set[1])
        /\ (aggs_set = None \/ Join(SubSeq(parts, n - 1, n)) \in aggs_set[1])

\* selected_columns of Iterator._load_shard, the two key columns appended
SelectedColumns(columns) ==
    SelectSeq(columns, ColumnSelected) \o << s_patient_id, s_timestamp >>

\* One pass of the window loop of Iterator._load_shard for each window
RECURSIVE WindowLoop(_, _)
WindowLoop(df, windows) ==
    IF windows = << >> THEN df
    ELSE LET dynamic == ScanParquet(fs.dynamic)
             dynamic_df == Select(dynamic, SelectedColumns(dynamic.cols))
             task_df == RenameTask(ScanParquet(fs.tasks))
             joined == JoinAsof(task_df, df, s_subject_id, s_timestamp)
         IN  WindowLoop(ConcatAlign(joined, dynamic_df), Tail(windows))

\* The columns of the label matrix y
LabelColumn(col) == EndsWith(col, << "/" >> \o s_task)

\* The columns of the feature matrix X
FeatureColumn(col) ==
    /\ col \notin { s_label, s_patient_id, s_timestamp }
    /\ ~EndsWith(col, << "/" >> \o s_task)

\* df of Iterator._load_shard(idx) after the window loop: the static table
\* of the shard, joined and aligned once per window
CombinedTable(idx) ==
    LET stem == data_shards[idx + 1]
        path == IF cfg.keep_static THEN static_shards[1][stem].path ELSE stem
    IN  WindowLoop(ScanParquet(fs.static[path]), cfg.window_sizes)

\* Iterator._load_shard(idx): the pair (X, y) of shard idx, or the error
\* raised on the way.  A matrix is its row blocks (one per shard, named by
\* the shard) and its columns.
LoadShard(idx) ==
    LET stem == data_shards[idx + 1]
        df == CombinedTable(idx)
    IN  IF df.err THEN [err |-> TRUE]
        ELSE [err |-> FALSE,
              X |-> [rows |-> << stem >>,
                     cols |-> SelectSeq(df.cols, FeatureColumn)],
              y |-> [rows |-> << stem >>,
                     cols |-> SelectSeq(df.cols, LabelColumn)]]

\* np.concatenate(blocks, axis=0): at least one block, all of one width
CanConcatenate(blocks) ==
    /\ Len(blocks) > 0
    /\ \A i \in 1..Len(blocks) : Len(blocks[i].cols) = Len(blocks[1].cols)

RECURSIVE ConcatRows(_)
ConcatRows(blocks) ==
    IF blocks = << >> THEN << >>
    ELSE Head(blocks).rows \o ConcatRows(Tail(blocks))

Concatenate(blocks) == [rows |-> ConcatRows(blocks), cols |-> blocks[1].cols]

\* the shards from the current index on
CollectRangeFromIndex ==
    [i \in 1..(Len(data_shards) - it) |-> it + i - 1]

\* range(len(self._data_shards)) of collect_in_memory
CollectRange == [i \in 1..Len(data_shards) |-> i - 1]

\* the end-of-iteration test of next
Exhausted == it = Len(data_shards)

\* an index that never moves
AdvanceIndexStuck == it

\* self._it += 1
AdvanceIndex == it + 1

\* a next that moves the index before it loads the shard
Iterator_next_IndexFirst ==
    /\ Exhausted \/ Len(sink) < MaxSink
    /\ IF Exhausted
       THEN /\ last' = [op |-> "next", at |-> it, ret |-> "0"]
            /\ UNCHANGED << it, sink >>
       ELSE LET loaded == LoadShard(it)
            IN  /\ it' = it + 1
                /\ IF loaded.err
                   THEN /\ last' = [op |-> "next", at |-> it, ret |-> "raise"]
                        /\ UNCHANGED sink
                   ELSE /\ sink' = Append(sink, [data |-> loaded.X,
                                                 label |-> loaded.y])
                        /\ last' = [op |-> "next", at |-> it, ret |-> "1"]
    /\ UNCHANGED << cfg, fs, data_shards, static_shards, codes_set,
                    aggs_set, min_frequency_set, collected >>

\* Iterator.next(input_data)
Iterator_next ==
    /\ Exhausted \/ Len(sink) < MaxSink
    /\ IF Exhausted
       THEN /\ last' = [op |-> "next", at |-> it, ret |-> "0"]
            /\ UNCHANGED << it, sink >>
       ELSE LET loaded == LoadShard(it)
            IN  IF loaded.err
                THEN /\ last' = [op |-> "next", at |-> it, ret |-> "raise"]
                     /\ UNCHANGED << it, sink >>
                ELSE /\ sink' = Append(sink, [data |-> loaded.X,
                                              label |-> loaded.y])
                     /\ it' = AdvanceIndex
                     /\ last' = [op |-> "next", at |-> it, ret |-> "1"]
    /\ UNCHANGED << cfg, fs, data_shards, static_shards, codes_set,
                    aggs_set, min_frequency_set, collected >>

\* a reset that leaves an exhausted iterator exhausted
ResetIndexUnlessExhausted == IF it = Len(data_shards) THEN it ELSE 0

\* self._it = 0
ResetIndex == 0

\* Iterator.reset()
Iterator_reset ==
    /\ it' = ResetIndex
    /\ last' = [op |-> "reset", at |-> it, ret |-> "None"]
    /\ UNCHANGED << cfg, fs, data_shards, static_shards, codes_set,
                    aggs_set, min_frequency_set, sink, collected >>

\* Iterator.collect_in_memory()
Iterator_collect_in_memory ==
    LET loads == [i \in 1..Len(CollectRange) |-> LoadShard(CollectRange[i])]
        failed == \E i \in 1..Len(loads) : loads[i].err
        X == [i \in 1..Len(loads) |-> loads[i].X]
        y == [i \in 1..Len(loads) |-> loads[i].y]
    IN  /\ IF ~failed /\ CanConcatenate(X) /\ CanConcatenate(y)
           THEN /\ collected' = Some([X |-> Concatenate(X),
                                      y |-> Concatenate(y)])
                /\ last' = [op |-> "collect_in_memory", at |-> it,
                            ret |-> "ok"]
           ELSE /\ collected' = collected
                /\ last' = [op |-> "collect_in_memory", at |-> it,
                            ret |-> "raise"]
        /\ UNCHANGED << cfg, fs, data_shards, static_shards, codes_set,
                        aggs_set, min_frequency_set, it, sink >>

\* The environment removes the static file of a shard
RemoveFile(stem) ==
    /\ fs.static[stem] # None
    /\ fs' = [fs EXCEPT !.static[stem] = None]
    /\ last' = [op |-> "none", at |-> it, ret |-> "None"]
    /\ UNCHANGED << cfg, data_shards, static_shards, codes_set, aggs_set,
                    min_frequency_set, it, sink, collected >>

\* The environment writes the static file of a shard back
RestoreFile(stem, columns) ==
    /\ fs.static[stem] = None
    /\ fs' = [fs EXCEPT !.static[stem] = Some(columns)]
    /\ last' = [op |-> "none", at |-> it, ret |-> "None"]
    /\ UNCHANGED << cfg, data_shards, static_shards, codes_set, aggs_set,
                    min_frequency_set, it, sink, collected >>

(***************************************************************************)
(* The iterator's specification: a split of up to MaxShards shards, every  *)
(* configuration of IterConfigs, the trainer calling next, reset and       *)
(* collect_in_memory in any order while static files come and go.          *)
(***************************************************************************)

c_A  == << "A" >>
c_B  == << "B" >>
c_AB == << "A", "/", "B" >>
w_7d == << "7", "d" >>
w_minus_7d == << "-", "7", "d" >>

\* name/.../name
Path(parts) == Join(parts)

StaticColumns ==
    << s_patient_id,
       Path(<< s_static, c_A, s_first >>),
       Path(<< s_static, c_A, s_present >>) >>

DynamicColumns ==
    << s_patient_id, s_timestamp,
       Path(<< w_7d, c_A, s_value, s_sum >>),
       Path(<< w_7d, c_B, s_value, s_sum >>) >>

TaskColumns == << s_subject_id, s_timestamp, s_label >>

CodeFrequencies ==
    << [code |-> c_A, frequency |-> 3], [code |-> c_B, frequency |-> 1] >>

IterConfigs ==
    [ window_sizes : { << >>, << w_minus_7d, w_7d >> },
      codes : { None, Some(<< c_A >>) },
      aggs : { None },
      min_code_inclusion_frequency : { None, Some(2) },
      keep_static : BOOLEAN ]

\* the orders in which iterdir() may list the files of a directory
Orderings(S) == { s \in [1..Cardinality(S) -> S] : Range(s) = S }

\* Iterator.__init__(cfg, split) over the files `files`, whose static
\* directory iterdir() lists as `shards`
Iterator_init(c, files, shards) ==
    /\ cfg = c
    /\ fs = files
    /\ data_shards = shards
    /\ static_shards = IF c.keep_static
                       THEN Some(get_static_shards(shards)) ELSE None
    /\ codes_set = get_codes_set(c)
    /\ aggs_set = get_aggs_set(c)
    /\ min_frequency_set = get_min_frequency_set(c, files)
    /\ it = 0
    /\ sink = << >>
    /\ collected = None
    /\ last = [op |-> "none", at |-> 0, ret |-> "None"]

\* An iterator built on a directory of at most MaxShards shards
IterInit ==
    \E c \in IterConfigs, present \in SUBSET ShardStems :
        /\ Cardinality(present) <= MaxShards
        /\ \E shards \in Orderings(present) :
              Iterator_init(c,
                  [static |-> [stem \in ShardStems |->
                                  IF stem \in present
                                  THEN Some(StaticColumns) ELSE None],
                   dynamic |-> Some(DynamicColumns),
                   tasks |-> Some(TaskColumns),
                   code_frequencies |-> CodeFrequencies],
                  shards)

(***************************************************************************)
(* The shard assembler on its own: _load_shard and its column selection    *)
(* applied to one shard, over the tables of ShardStaticTables and          *)
(* ShardDynamicTables and the configurations of ShardConfigs.              *)
(***************************************************************************)

\* the elements of s at the positions I, in order
Pick(s, I) ==
    LET F[k \in 0..Len(s)] ==
            IF k = 0 THEN << >>
            ELSE IF k \in I THEN Append(F[k - 1], s[k]) ELSE F[k - 1]
    IN  F[Len(s)]

\* feature columns a dynamic table may hold: named <code>/<aggregation> as
\* get_ts_feature_cols names them, and with a window before the code and a
\* two-segment aggregation
DynamicCandidates ==
    << Path(<< c_A, s_sum >>),
       Path(<< c_AB, s_sum >>),
       Path(<< c_B, s_count >>),
       Path(<< w_7d, c_A, s_value, s_sum >>),
       Path(<< w_7d, c_AB, s_value, s_sum >>),
       Path(<< w_7d, c_B, s_value, s_count >>) >>

ShardDynamicTables ==
    { << s_patient_id, s_timestamp >> \o Pick(DynamicCandidates, I) :
          I \in SUBSET (1..Len(DynamicCandidates)) }

ShardStaticTables ==
    { << s_patient_id,
         Path(<< s_static, c_A, s_first >>),
         Path(<< s_static, c_A, s_present >>) >>,
      << s_patient_id, s_timestamp, Path(<< s_static, c_A, s_first >>) >>,
      << s_subject_id, s_timestamp, Path(<< s_static, c_A, s_first >>),
         Path(<< s_label, s_task >>) >> }

ShardConfigs ==
    [ window_sizes : { << >>, << w_7d >> },
      codes : { None, Some(<< c_A >>), Some(<< c_AB >>) },
      aggs : { None, Some(<< s_sum >>), Some(<< Path(<< s_value, s_sum >>) >>) },
      min_code_inclusion_frequency : { None, Some(2) },
      keep_static : { FALSE } ]

ShardInit ==
    /\ \E c \in ShardConfigs, static \in ShardStaticTables,
          dynamic \in ShardDynamicTables :
          Iterator_init(c,
              [static |-> [stem \in ShardStems |->
                              IF stem = << "0" >> THEN Some(static) ELSE None],
               dynamic |-> Some(dynamic),
               tasks |-> Some(TaskColumns),
               code_frequencies |-> CodeFrequencies],
              << << "0" >> >>)
    /\ selected_columns = None
    /\ shard_out = None

\* lines 119-129 of _load_shard, on the dynamic table of the shard
Apply_selected_columns ==
    /\ selected_columns' = Some(SelectedColumns(ScanParquet(fs.dynamic).cols))
    /\ UNCHANGED << iterVars, shard_out >>

\* _load_shard(0)
Apply_load_shard ==
    /\ shard_out' = Some(LoadShard(0))
    /\ UNCHANGED << iterVars, selected_columns >>

(***************************************************************************)
(* utils.py: the type of a flat column and the schema normalizer           *)
(***************************************************************************)

VARIABLES
    dtype_arg,          \* the column name given to get_flat_col_dtype
    dtype_out,          \* what get_flat_col_dtype returned for it
    flat_df,            \* the table given to add_missing_cols
    feature_columns,    \* the canonical feature columns given to it
    norm_out            \* what add_missing_cols returned, collected, with
                        \* set_count_0_to_null FALSE and TRUE

dtypeVars == << dtype_arg, dtype_out >>

normVars == << flat_df, feature_columns, norm_out >>

\* the most rows of a table given to add_missing_cols
MaxRows == 1

\* parse_flat_feature_column(c)
parse_flat_feature_column(c) ==
    LET parts == Split(c)
    IN  IF Len(parts) < 3 THEN [err |-> TRUE]
        ELSE [err |-> FALSE,
              code_type |-> parts[1],
              code |-> Join(SubSeq(parts, 2, Len(parts) - 1)),
              agg |-> parts[Len(parts)]]

\* get_flat_col_dtype(col): the polars type, or the ValueError raised
get_flat_col_dtype(col) ==
    LET parsed == parse_flat_feature_column(col)
    IN  IF parsed.err THEN [err |-> TRUE, dtype |-> "ValueError"]
        ELSE IF parsed.agg \in { s_sum, s_sum_sqd, s_min, s_max, s_value,
                                 s_first }
        THEN [err |-> FALSE, dtype |-> "Float32"]
        ELSE IF parsed.agg = s_present
        THEN [err |-> FALSE, dtype |-> "Boolean"]
        ELSE IF parsed.agg \in { s_count, s_has_values_count }
        THEN [err |-> FALSE, dtype |-> "UInt32"]
        ELSE [err |-> TRUE, dtype |-> "ValueError"]

\* pl.col(c).cast(dt) on one cell holding null or an integer: null stays
\* null, a negative value does not fit UInt32, Boolean is value != 0
Cast(cell, dt) ==
    IF cell = None THEN [err |-> FALSE, cell |-> None]
    ELSE IF dt = "UInt32"
    THEN [err |-> cell[1] < 0, cell |-> cell]
    ELSE IF dt = "Boolean"
    THEN [err |-> FALSE,
          cell |-> Some(IF cell[1] # 0 THEN "True" ELSE "False")]
    ELSE [err |-> FALSE, cell |-> cell]

\* cs.ends_with("count")
ZeroToNullColumn(name) == EndsWith(name, s_count)

\* the cell as it is
KeepCell(cell) == cell

\* pl.when(c != 0).then(c) on one cell: null where the test is not true
WhenNotZero(cell) == IF cell # None /\ cell[1] # 0 THEN cell ELSE None

\* the number of rows of a table
Height(df) == Len(df.data[df.cols[1]])

\* add_missing_cols(flat_df, feature_columns, set_count_0_to_null),
\* collected: the table, or the error raised
add_missing_cols(df, columns, set_count_0_to_null) ==
    LET have == Range(df.cols)
        cols_to_add == Range(columns) \ have
        cols_to_retype == Range(columns) \cap have
        dtype_fails == \E c \in Range(columns) : get_flat_col_dtype(c).err
        key_cols == IF s_timestamp \in have
                    THEN << s_patient_id, s_timestamp >>
                    ELSE << s_patient_id >>
        rows == 1..Height(df)
        Retyped(c, i) == Cast(df.data[c][i], get_flat_col_dtype(c).dtype)
        cast_fails == \E c \in cols_to_retype, i \in rows : Retyped(c, i).err
        with_columns ==
            [c \in have \cup cols_to_add |->
                IF c \in cols_to_add THEN [i \in rows |-> None]
                ELSE IF c \in cols_to_retype
                THEN [i \in rows |-> Retyped(c, i).cell]
                ELSE df.data[c]]
        selected == key_cols \o columns
        select_fails ==
            \/ ~NoDuplicates(selected)
            \/ ~(Range(selected) \subseteq have \cup cols_to_add)
        plain == [c \in Range(selected) |-> with_columns[c]]
        nulled == [c \in Range(selected) |->
                     IF ZeroToNullColumn(c)
                     THEN [i \in rows |-> WhenNotZero(plain[c][i])]
                     ELSE plain[c]]
    IN  IF dtype_fails \/ cast_fails \/ select_fails THEN [err |-> TRUE]
        ELSE [err |-> FALSE,
              cols |-> selected,
              data |-> IF set_count_0_to_null THEN nulled ELSE plain]

\* Codes and the last segments of column names get_flat_col_dtype is asked
\* about: the nine aggregations and two names that are none of them
DtypeCodes == { c_A, c_B, c_AB }

Aggregations ==
    { s_sum, s_sum_sqd, s_min, s_max, s_value, s_first, s_present, s_count,
      s_has_values_count }

DtypeLastSegments == Aggregations \cup { << "m", "e", "a", "n" >>, << >> }

DtypeColumns ==
    { Path(<< code, agg >>) : code \in DtypeCodes, agg \in DtypeLastSegments }
        \cup { Path(<< s_static, code, agg >>) :
                  code \in DtypeCodes, agg \in DtypeLastSegments }

DtypeInit ==
    /\ dtype_arg \in DtypeColumns
    /\ dtype_out = None

Apply_get_flat_col_dtype ==
    /\ dtype_out' = Some(get_flat_col_dtype(dtype_arg))
    /\ UNCHANGED dtype_arg

\* the feature columns a table given to add_missing_cols may hold
n_AB_count == Path(<< c_AB, s_count >>)
n_AB_has_values_count == Path(<< c_AB, s_has_values_count >>)
n_A_count == Path(<< c_A, s_count >>)
n_static_A_first == Path(<< s_static, c_A, s_first >>)
n_static_A_present == Path(<< s_static, c_A, s_present >>)

\* the values of a cell of a count column: null, zero, a count
CellValues == { None, Some(0), Some(2) }

Reverse(s) == [i \in 1..Len(s) |-> s[Len(s) + 1 - i]]

\* canonical feature-column lists: column names as get_static_feature_cols
\* and get_ts_feature_cols write them, in either order
CanonicalCandidates ==
    << n_AB_count, n_AB_has_values_count, n_A_count, n_static_A_first,
       n_static_A_present >>

CanonicalLists ==
    { Pick(CanonicalCandidates, I) :
          I \in SUBSET (1..Len(CanonicalCandidates)) }
      \cup { Pick(Reverse(CanonicalCandidates), I) :
                I \in SUBSET (1..Len(CanonicalCandidates)) }

\* the tables: patient_id, with or without timestamp, any of two count
\* columns with any cells, with or without a static column of zeros
InputTables ==
    UNION { { [cols |-> << s_patient_id >> \o (IF ts THEN << s_timestamp >>
                                                ELSE << >>)
                           \o Pick(<< n_AB_count, n_AB_has_values_count >>, I)
                           \o (IF st THEN << n_static_A_first >> ELSE << >>),
               data |-> [c \in ({ s_patient_id }
                                  \cup (IF ts THEN { s_timestamp } ELSE {})
                                  \cup Range(Pick(<< n_AB_count,
                                                     n_AB_has_values_count >>,
                                                  I))
                                  \cup (IF st THEN { n_static_A_first }
                                        ELSE {})) |->
                           IF c = s_patient_id THEN [i \in 1..h |-> Some(i)]
                           ELSE IF c \in { s_timestamp, n_static_A_first }
                           THEN [i \in 1..h |-> Some(0)]
                           ELSE cells[c]]] :
              cells \in [Range(Pick(<< n_AB_count, n_AB_has_values_count >>,
                                    I)) -> [1..h -> CellValues]] } :
            ts \in BOOLEAN, st \in BOOLEAN, h \in 1..MaxRows,
            I \in SUBSET (1..2) }

NormInit ==
    /\ flat_df \in InputTables
    /\ feature_columns \in CanonicalLists
    /\ norm_out = [flag \in BOOLEAN |-> None]

Apply_add_missing_cols(set_count_0_to_null) ==
    /\ norm_out' = [norm_out EXCEPT ![set_count_0_to_null] =
                       Some(add_missing_cols(flat_df, feature_columns,
                                             set_count_0_to_null))]
    /\ UNCHANGED << flat_df, feature_columns >>

(***************************************************************************)
(* utils.py: the feature column catalog                                    *)
(***************************************************************************)

VARIABLES
    shard_df,           \* the rows (code, timestamp) of a MEDS shard
    cat_aggs,           \* cfg.aggs
    catalog             \* what get_flat_rep_feature_cols returned

catVars == << shard_df, cat_aggs, catalog >>

\* the most rows of a shard given to get_flat_rep_feature_cols
MaxEvents == 3

\* the list as given
Unsorted(s) == s

\* sorted(s) of a list of str
Sorted(s) == SortSeq(s, StrLess)

RECURSIVE Flatten(_)
Flatten(lists) ==
    IF lists = << >> THEN << >> ELSE Head(lists) \o Flatten(Tail(lists))

\* the codes of the rows whose timestamp is null (static) or not
CodesWhere(df, static) ==
    { df[i].code : i \in { j \in 1..Len(df) :
                             (df[j].timestamp = None) = static } }

\* get_static_feature_cols(shard_df), unique() giving the codes as `codes`
get_static_feature_cols(codes) ==
    Sorted(Flatten([i \in 1..Len(codes) |->
                       << Path(<< s_static, codes[i], s_present >>),
                          Path(<< s_static, codes[i], s_first >>) >>]))

\* get_ts_feature_cols(aggregations, shard_df), unique() giving `codes`
get_ts_feature_cols(aggregations, codes) ==
    Sorted(Flatten([i \in 1..Len(codes) |->
                       [k \in 1..Len(aggregations) |->
                           Path(<< codes[i], aggregations[k] >>)]]))

\* get_flat_rep_feature_cols(cfg, shard_df)
get_flat_rep_feature_cols(aggregations, static_codes, ts_codes) ==
    get_static_feature_cols(static_codes)
        \o get_ts_feature_cols(aggregations, ts_codes)

c_t == << "t" >>

CatalogCodes == { c_A, c_AB, c_t }

CatalogAggs ==
    { << >>, << s_sum >>, << s_sum, s_count >>, << s_count, s_sum >> }

CatInit ==
    /\ \E n \in 0..MaxEvents :
          shard_df \in [1..n -> [code : CatalogCodes,
                                 timestamp : { None, Some(1) }]]
    /\ cat_aggs \in CatalogAggs
    /\ catalog = None

\* get_flat_rep_feature_cols on the shard: unique() may give the codes in
\* any order
Apply_get_flat_rep_feature_cols ==
    /\ \E static_codes \in Orderings(CodesWhere(shard_df, TRUE)),
          ts_codes \in Orderings(CodesWhere(shard_df, FALSE)) :
          catalog' = Some(get_flat_rep_feature_cols(cat_aggs, static_codes,
                                                    ts_codes))
    /\ UNCHANGED << shard_df, cat_aggs >>

(***************************************************************************)
(* xgboost_sweep.py: XGBoostModel                                          *)
(***************************************************************************)

VARIABLES
    keep_data_in_memory,    \* cfg.model.keep_data_in_memory
    split_shards,           \* the shards of each split's directory, as listed
    itrain, ival, itest,    \* the iterators
    dtrain, dval, dtest,    \* the DMatrix structures
    model,                  \* the trained model: what it was trained on
    evaluated,              \* what evaluate predicted on
    model_last              \* how the last call ended

modelVars ==
    << keep_data_in_memory, split_shards, itrain, ival, itest, dtrain, dval,
       dtest, model, evaluated, model_last >>

Splits == { "train", "tuning", "held_out" }

\* Iterator(self.cfg, split=split): the iterator of a split and its shards
SplitIterator(split) == [split |-> split, shards |-> split_shards[split]]

\* xgb.DMatrix(X, label=y) of an iterator's collect_in_memory(), or
\* xgb.DMatrix(iterator), which pulls every shard with next: the data of the
\* iterator's shards, in the iterator's order
DMatrix(iterator) == [split |-> iterator.split, shards |-> iterator.shards]

\* XGBoostModel._build_iterators
build_iterators ==
    /\ itrain' = Some(SplitIterator("train"))
    /\ ival' = Some(SplitIterator("tuning"))
    /\ itest' = Some(SplitIterator("held_out"))

\* XGBoostModel._build_dmatrix_in_memory: collect_in_memory raises on an
\* iterator without shards, before any structure is assigned
build_dmatrix_in_memory ==
    IF \E split \in Splits : split_shards[split] = << >>
    THEN /\ UNCHANGED << dtrain, dval, dtest >>
         /\ model_last' = "raise"
    ELSE /\ dtrain' = Some(DMatrix(itrain'[1]))
         /\ dval' = Some(DMatrix(ival'[1]))
         /\ dtest' = Some(DMatrix(itest'[1]))
         /\ model_last' = "ok"

\* XGBoostModel._build_dmatrix_from_iterators
build_dmatrix_from_iterators ==
    /\ dtrain' = Some(DMatrix(ival'[1]))
    /\ dval' = Some(DMatrix(itest'[1]))
    /\ dtest' = Some(DMatrix(itest'[1]))
    /\ model_last' = "ok"

\* XGBoostModel._build
build ==
    IF keep_data_in_memory
    THEN build_iterators /\ build_dmatrix_in_memory
    ELSE build_iterators /\ build_dmatrix_from_iterators

\* XGBoostModel.train: xgb.train(params, self.dtrain)
XGBoostModel_train ==
    /\ build
    /\ model' = IF model_last' = "ok" THEN Some([trained_on |-> dtrain'[1]])
                ELSE model
    /\ UNCHANGED << keep_data_in_memory, split_shards, evaluated >>

\* XGBoostModel.evaluate: self.model.predict(self.dtest); without a model
\* the attribute access on None raises
XGBoostModel_evaluate ==
    /\ IF model = None
       THEN /\ model_last' = "raise"
            /\ UNCHANGED evaluated
       ELSE /\ model_last' = "ok"
            /\ evaluated' = Some([predicted_on |-> dtest[1]])
    /\ UNCHANGED << keep_data_in_memory, split_shards, itrain, ival, itest,
                    dtrain, dval, dtest, model >>

\* the directories of the three splits: any listing of any shards; a split
\* without shards is given to the in-memory mode only
SplitListings == UNION { Orderings(S) : S \in SUBSET ShardStems }

\* XGBoostModel.__init__(cfg)
ModelInit ==
    /\ keep_data_in_memory \in BOOLEAN
    /\ split_shards \in [Splits -> SplitListings]
    /\ keep_data_in_memory \/ \A split \in Splits : split_shards[split] # << >>
    /\ itrain = None /\ ival = None /\ itest = None
    /\ dtrain = None /\ dval = None /\ dtest = None
    /\ model = None
    /\ evaluated = None
    /\ model_last = "none"

(***************************************************************************)
(* Specifications                                                          *)
(***************************************************************************)

vars == << iterVars, shardVars, dtypeVars, normVars, catVars, modelVars >>

IterIdle ==
    Iterator_init(CHOOSE c \in IterConfigs : TRUE,
                  [static |-> [stem \in ShardStems |-> None],
                   dynamic |-> None, tasks |-> None,
                   code_frequencies |-> << >>],
                  << >>)

ShardIdle == selected_columns = None /\ shard_out = None

DtypeIdle == dtype_arg = None /\ dtype_out = None

NormIdle == flat_df = None /\ feature_columns = None /\ norm_out = None

CatIdle == shard_df = None /\ cat_aggs = None /\ catalog = None

ModelIdle ==
    /\ keep_data_in_memory = TRUE
    /\ split_shards = None
    /\ itrain = None /\ ival = None /\ itest = None
    /\ dtrain = None /\ dval = None /\ dtest = None
    /\ model = None
    /\ evaluated = None
    /\ model_last = "none"

Init ==
    IterInit /\ ShardIdle /\ DtypeIdle /\ NormIdle /\ CatIdle /\ ModelIdle

Next ==
    \/ Iterator_next
          /\ UNCHANGED << shardVars, dtypeVars, normVars, catVars, modelVars >>
    \/ Iterator_reset
          /\ UNCHANGED << shardVars, dtypeVars, normVars, catVars, modelVars >>
    \/ Iterator_collect_in_memory
          /\ UNCHANGED << shardVars, dtypeVars, normVars, catVars, modelVars >>
    \/ \E stem \in Range(data_shards) :
          RemoveFile(stem)
              /\ UNCHANGED << shardVars, dtypeVars, normVars, catVars, modelVars >>
    \/ \E stem \in Range(data_shards) :
          RestoreFile(stem, StaticColumns)
              /\ UNCHANGED << shardVars, dtypeVars, normVars, catVars, modelVars >>

\* the iterator under its callers
Spec == Init /\ [][Next]_vars

ShardSpecInit ==
    ShardInit /\ DtypeIdle /\ NormIdle /\ CatIdle /\ ModelIdle

ShardSpecNext ==
    \/ Apply_selected_columns /\ UNCHANGED << dtypeVars, normVars, catVars, modelVars >>
    \/ Apply_load_shard /\ UNCHANGED << dtypeVars, normVars, catVars, modelVars >>

\* the shard assembler on one shard
SpecShard == ShardSpecInit /\ [][ShardSpecNext]_vars

DtypeSpecInit ==
    DtypeInit /\ IterIdle /\ ShardIdle /\ NormIdle /\ CatIdle /\ ModelIdle

DtypeSpecNext ==
    Apply_get_flat_col_dtype
        /\ UNCHANGED << iterVars, shardVars, normVars, catVars, modelVars >>

\* get_flat_col_dtype on one column name
SpecDtype == DtypeSpecInit /\ [][DtypeSpecNext]_vars

NormSpecInit ==
    NormInit /\ IterIdle /\ ShardIdle /\ DtypeIdle /\ CatIdle /\ ModelIdle

NormSpecNext ==
    \E flag \in BOOLEAN :
        Apply_add_missing_cols(flag)
            /\ UNCHANGED << iterVars, shardVars, dtypeVars, catVars, modelVars >>

\* add_missing_cols on one table and one canonical column list
SpecNorm == NormSpecInit /\ [][NormSpecNext]_vars

CatSpecInit ==
    CatInit /\ IterIdle /\ ShardIdle /\ DtypeIdle /\ NormIdle /\ ModelIdle

CatSpecNext ==
    Apply_get_flat_rep_feature_cols
        /\ UNCHANGED << iterVars, shardVars, dtypeVars, normVars, modelVars >>

\* get_flat_rep_feature_cols on one shard
SpecCat == CatSpecInit /\ [][CatSpecNext]_vars

ModelSpecInit ==
    ModelInit /\ IterIdle /\ ShardIdle /\ DtypeIdle /\ NormIdle /\ CatIdle

ModelSpecNext ==
    \/ XGBoostModel_train
          /\ UNCHANGED << iterVars, shardVars, dtypeVars, normVars, catVars >>
    \/ XGBoostModel_evaluate
          /\ UNCHANGED << iterVars, shardVars, dtypeVars, normVars, catVars >>

\* XGBoostModel under its caller
SpecModel == ModelSpecInit /\ [][ModelSpecNext]_vars

(***************************************************************************)
(* The iterator's claims                                                   *)
(***************************************************************************)

\* C1: a next call made at an index below the number of shards whose
\* shard loads returns 1, calls the sink once, with the data of the shard
\* at that index, and moves the index up by one; a next call made at the
\* number of shards returns 0, calls no sink and leaves the index there.
\* So the calls since the last reset delivered the shards 0..index-1 in
\* list order, and the index never passes the number of shards.
C1_NextDeliversInOrder ==
    /\ [](/\ it \in 0..Len(data_shards)
          /\ Len(sink) >= it
          /\ \A j \in 1..it :
                sink[Len(sink) - it + j].data.rows = << data_shards[j] >>)
    /\ [][last'.op = "next" =>
            /\ last'.at = it
            /\ IF it = Len(data_shards)
               THEN last'.ret = "0" /\ sink' = sink /\ it' = it
               ELSE \/ LoadShard(it).err
                    \/ /\ last'.ret = "1"
                       /\ it' = it + 1
                       /\ Len(sink') = Len(sink) + 1
                       /\ SubSeq(sink', 1, Len(sink)) = sink
                       /\ sink'[Len(sink')].data.rows
                              = << data_shards[it + 1] >>]_vars

\* C1's case: two shards were delivered in list order and a third call
\* returned 0
C1_Witness ==
    /\ Len(data_shards) = 2
    /\ it = 2
    /\ last = [op |-> "next", at |-> 2, ret |-> "0"]
    /\ Len(sink) = 2
    /\ sink[1].data.rows = << data_shards[1] >>
    /\ sink[2].data.rows = << data_shards[2] >>

\* C2: reset, at whatever index, sets the index to 0 and changes nothing
\* else; a reset after a reset changes nothing; and the calls since the
\* last reset gave the sink, in list order, the same pairs as any other
\* pass over the same files.
C2_ResetRestarts ==
    /\ [](last.op = "reset" => it = 0)
    /\ [](\A j \in 1..it : \A k \in 1..Len(sink) :
              sink[k].data.rows = << data_shards[j] >>
                  => sink[k] = sink[Len(sink) - it + j])
    /\ [][last'.op = "reset" =>
            /\ it' = 0
            /\ last'.at = it
            /\ UNCHANGED << cfg, fs, data_shards, static_shards, codes_set,
                            aggs_set, min_frequency_set, sink, collected >>
            /\ (last.op = "reset" => it' = it)]_vars

\* C2's case: a full pass over two shards, a reset at the exhausted
\* index, and a second full pass
C2_Witness ==
    /\ Len(data_shards) = 2
    /\ it = 2
    /\ Len(sink) = 4
    /\ sink[1].data.rows = << data_shards[1] >>
    /\ sink[2].data.rows = << data_shards[2] >>
    /\ sink[3] = sink[1]
    /\ sink[4] = sink[2]

\* C3 as claimed: collect_in_memory called at index k returns the rows of
\* the shards k..N-1 and leaves the index at N.
C3_CollectFromIndex ==
    [][last'.op = "collect_in_memory" /\ last'.ret = "ok" =>
          /\ it' = Len(data_shards)
          /\ collected'[1].X.rows
                 = SubSeq(data_shards, it + 1, Len(data_shards))
          /\ collected'[1].y.rows
                 = SubSeq(data_shards, it + 1, Len(data_shards))]_vars

\* C3, amended: collect_in_memory neither reads nor moves the index and
\* calls no sink; when it returns, there is at least one shard and it
\* returns the rows of all the shards 0..N-1 in list order, whatever the
\* index; with no shard it raises.
C3_CollectAllShards ==
    [][last'.op = "collect_in_memory" =>
          /\ it' = it
          /\ sink' = sink
          /\ last'.at = it
          /\ (Len(data_shards) = 0 => last'.ret = "raise")
          /\ (last'.ret = "ok" =>
                /\ Len(data_shards) >= 1
                /\ collected'[1].X.rows = data_shards
                /\ collected'[1].y.rows = data_shards
                /\ collected'[1].X.cols = LoadShard(0).X.cols
                /\ collected'[1].y.cols = LoadShard(0).y.cols)
          /\ (last'.ret = "raise" => collected' = collected)]_vars

\* C3's case: collect_in_memory called at index 1 of 2 returned both
\* shards and left the index at 1
C3_Witness ==
    /\ Len(data_shards) = 2
    /\ it = 1
    /\ last = [op |-> "collect_in_memory", at |-> 1, ret |-> "ok"]
    /\ collected # None
    /\ collected[1].X.rows = data_shards

\* C10: a next call whose shard fails to load raises, calls no sink and
\* leaves the index where it was, so that the next call loads the same
\* shard; and the index moves, by one, only in a step that gives the sink
\* the complete pair (X, y) of the shard at the old index.
C10_FailedLoadKeepsIndex ==
    [][/\ (last'.op = "next" /\ it < Len(data_shards) /\ LoadShard(it).err
              => last'.ret = "raise" /\ sink' = sink /\ it' = it)
       /\ (last'.op = "next" /\ last'.ret = "raise"
              => it < Len(data_shards) /\ LoadShard(it).err)
       /\ (it' > it
              => /\ it' = it + 1
                 /\ ~LoadShard(it).err
                 /\ sink' = Append(sink, [data |-> LoadShard(it).X,
                                          label |-> LoadShard(it).y]))]_vars

\* C10's case: the first shard was delivered, the file of the second is
\* gone, and the call for it raised and left the index at 1
C10_Witness ==
    /\ Len(data_shards) = 2
    /\ fs.static[data_shards[2]] = None
    /\ last = [op |-> "next", at |-> 1, ret |-> "raise"]
    /\ it = 1
    /\ Len(sink) = 1

\* The code and the aggregation a dynamic column <code>/<aggregation> names:
\* the aggregation is the last segment, the code everything before it.
NamedCode(col) == Join(SubSeq(Split(col), 1, Len(Split(col)) - 1))

NamedAggregation(col) == Split(col)[Len(Split(col))]

\* C4: the column selection of _load_shard selects a dynamic column
\* <code>/<aggregation> exactly when each inclusion set that is present holds
\* its code (codes, min frequency) or its aggregation (aggs); with the three
\* sets absent it selects every dynamic feature column.
C4_SelectedIffAllPresentSetsPass ==
    selected_columns # None =>
        \A col \in Range(fs.dynamic[1]) \ { s_patient_id, s_timestamp } :
            col \in Range(selected_columns[1])
                <=> /\ (codes_set = None \/ NamedCode(col) \in codes_set[1])
                    /\ (min_frequency_set = None
                          \/ NamedCode(col) \in min_frequency_set[1])
                    /\ (aggs_set = None
                          \/ NamedAggregation(col) \in aggs_set[1])

\* C9: when _load_shard returns, y holds exactly the columns of the combined
\* table ending in /task, X exactly the other columns but for the keys of the
\* as-of join, subject_id and timestamp, both in the table's order, and X
\* and y have the same rows.
C9_SplitPartitionsColumns ==
    shard_out # None /\ ~shard_out[1].err =>
        LET df == CombinedTable(0).cols
            Task(col) == EndsWith(col, << "/" >> \o s_task)
            Feature(col) == ~Task(col) /\ col \notin { s_subject_id, s_timestamp }
        IN  /\ shard_out[1].y.cols = SelectSeq(df, Task)
            /\ shard_out[1].X.cols = SelectSeq(df, Feature)
            /\ shard_out[1].X.rows = shard_out[1].y.rows

\* The last segment of a column name.
LastSegment(col) == Split(col)[Len(Split(col))]

\* C6: get_flat_col_dtype is total and exact on the wire format: for a name
\* static/<code>/<agg> or <code>/<agg> it returns Float32 when <agg> is sum,
\* sum_sqd, min, max, value or first, Boolean when it is present, UInt32 when
\* it is count or has_values_count, and raises for every other last segment.
C6_DtypeTotalAndExact ==
    dtype_out # None =>
        LET agg == LastSegment(dtype_arg)
        IN  IF agg \in { s_sum, s_sum_sqd, s_min, s_max, s_value, s_first }
            THEN dtype_out[1] = [err |-> FALSE, dtype |-> "Float32"]
            ELSE IF agg = s_present
            THEN dtype_out[1] = [err |-> FALSE, dtype |-> "Boolean"]
            ELSE IF agg \in { s_count, s_has_values_count }
            THEN dtype_out[1] = [err |-> FALSE, dtype |-> "UInt32"]
            ELSE dtype_out[1].err

\* C5: for every table and every canonical feature-column list
\* add_missing_cols returns a table whose columns are the key columns
\* (patient_id, then timestamp when the input has it) followed by the
\* canonical columns in their order, the canonical columns the input lacks
\* being all null and the input's other columns being gone.
C5_NormalizedSchema ==
    \A flag \in BOOLEAN :
        norm_out[flag] # None =>
            LET out == norm_out[flag][1]
                key_columns == IF s_timestamp \in Range(flat_df.cols)
                               THEN << s_patient_id, s_timestamp >>
                               ELSE << s_patient_id >>
            IN  /\ ~out.err
                /\ out.cols = key_columns \o feature_columns
                /\ \A c \in Range(feature_columns) \ Range(flat_df.cols) :
                      \A i \in 1..Height(flat_df) : out.data[c][i] = None

\* C7: when add_missing_cols returns a table with set_count_0_to_null false
\* it returns one with the flag true, with the same columns, in which a cell
\* of a column whose name ends in count is null where the other table has 0
\* and equal to the other table's cell elsewhere, and every cell of every
\* other column, the key columns too, is equal to the other table's.
C7_ZeroToNull ==
    norm_out[TRUE] # None /\ norm_out[FALSE] # None =>
        LET nulled == norm_out[TRUE][1]
            plain == norm_out[FALSE][1]
        IN  /\ nulled.err = plain.err
            /\ ~plain.err =>
                  /\ nulled.cols = plain.cols
                  /\ \A c \in Range(plain.cols) :
                        \A i \in 1..Height(flat_df) :
                            IF EndsWith(c, s_count) /\ plain.data[c][i] = Some(0)
                            THEN nulled.data[c][i] = None
                            ELSE nulled.data[c][i] = plain.data[c][i]

\* C7 witness: both tables were returned; a count column holds a 0 and a
\* count column holds a count, the timestamp column holds a 0, and a
\* canonical column was added.
C7_Witness ==
    /\ norm_out[TRUE] # None /\ norm_out[FALSE] # None
    /\ ~norm_out[FALSE][1].err /\ ~norm_out[TRUE][1].err
    /\ s_timestamp \in Range(norm_out[FALSE][1].cols)
    /\ norm_out[FALSE][1].data[s_timestamp][1] = Some(0)
    /\ \E c \in Range(feature_columns) :
          /\ EndsWith(c, s_count)
          /\ norm_out[FALSE][1].data[c][1] = Some(0)
    /\ \E c \in Range(feature_columns) :
          /\ EndsWith(c, s_count)
          /\ norm_out[FALSE][1].data[c][1] = Some(2)
    /\ \E c \in Range(feature_columns) : c \notin Range(flat_df.cols)

\* The names the catalog holds for the rows of the shard.
StaticNames ==
    { Path(<< s_static, code, agg >>) :
          code \in CodesWhere(shard_df, TRUE), agg \in { s_first, s_present } }

DynamicNames ==
    { Path(<< code, agg >>) :
          code \in CodesWhere(shard_df, FALSE), agg \in Range(cat_aggs) }

Ascending(s) == \A i, j \in 1..Len(s) : i < j => StrLess(s[i], s[j])

\* C8 as stated: the catalog is sorted by full column name, and holds
\* static/<code>/first and static/<code>/present for each code with a row
\* without timestamp and <code>/<agg> for each code with a row with a
\* timestamp and each configured aggregation; being fixed by these sets it is
\* the same for every order of the rows.
C8_CatalogSorted ==
    catalog # None =>
        /\ Ascending(catalog[1])
        /\ Range(catalog[1]) = StaticNames \cup DynamicNames

\* C8: the catalog is the static names in ascending order followed by the
\* dynamic names in ascending order, the static names being
\* static/<code>/first and static/<code>/present for each code with a row
\* without timestamp and the dynamic names <code>/<agg> for each code with a
\* row with a timestamp and each configured aggregation; being fixed by
\* these sets, it is the same for every order of the rows.
C8_CatalogPartsSorted ==
    catalog # None =>
        \E k \in 0..Len(catalog[1]) :
            LET static_columns == SubSeq(catalog[1], 1, k)
                dynamic_columns == SubSeq(catalog[1], k + 1, Len(catalog[1]))
            IN  /\ Ascending(static_columns)
                /\ Range(static_columns) = StaticNames
                /\ Ascending(dynamic_columns)
                /\ Range(dynamic_columns) = DynamicNames

\* C8 witness: a catalog of a shard with a static code, two dynamic codes and
\* two aggregations, which is not ascending as a whole.
C8_Witness ==
    /\ catalog # None
    /\ CodesWhere(shard_df, TRUE) # {}
    /\ Cardinality(CodesWhere(shard_df, FALSE)) = 2
    /\ Len(cat_aggs) = 2
    /\ ~Ascending(catalog[1])

\* C11: in both modes, once train has built the structures, dtrain holds the
\* train split's shards, dval the tuning split's and dtest the held_out
\* split's, the model is trained on the train split's shards and evaluate
\* predicts on the held_out split's shards.
C11_ModesFeedSameSplits ==
    /\ dtrain # None =>
          /\ dtrain[1] = [split |-> "train", shards |-> split_shards["train"]]
          /\ dval[1] = [split |-> "tuning", shards |-> split_shards["tuning"]]
          /\ dtest[1] = [split |-> "held_out",
                         shards |-> split_shards["held_out"]]
    /\ model # None =>
          model[1].trained_on =
              [split |-> "train", shards |-> split_shards["train"]]
    /\ evaluated # None =>
          evaluated[1].predicted_on =
              [split |-> "held_out", shards |-> split_shards["held_out"]]

=============================================================================
